---- MODULE Spec2Model ----
(***************************************************************************)
(* Bingo Assistant: the rules engine (src/core/rules.ts, src/core/models)  *)
(* and the session state it is evaluated against.                          *)
(*                                                                         *)
(* Arrays the program indexes (cells, marks) are functions over 0..n-1;    *)
(* arrays it only iterates or appends to are sequences.  An optional       *)
(* number (number | undefined) is a set: {} when absent, {n} when present. *)
(* An optional field of a WinResult is a field the record does not have.   *)
(***************************************************************************)
EXTENDS Integers, Sequences, FiniteSets, TLC

VARIABLES
    card,           \* the card on screen: [cells, hasFreeCenter]
    calledNumbers,  \* currentSession.calledNumbers, in calling order
    ruleMode,       \* currentSession.ruleMode
    marks,          \* the mark vector handed to the engine
    completedLines, \* what getCompletedLines returned for marks
    winResult,      \* what detectWins returned for (card, marks, ruleMode)
    lastToggled,    \* the argument of the last toggleCalledNumber ({} if none)
    steps,          \* number of toggles made since Init
    pc,             \* which part of the program is running, and where it is
    numArg,         \* the number handed to the column helpers
    colArg,         \* the column handed to isValidNumberForColumn
    isValid,        \* what isValidNumberForColumn(numArg, colArg) returned
    column,         \* what getColumnForNumber(numArg) returned
    cards,          \* the cards store: its cards, in insertion order
    cardView,       \* App's cardView: "list", "new" or "edit"
    newCardCells,   \* App's newCardCells, the cells of the card being created
    editingCardId,  \* App's editingCardId ({} when null)
    selectedIndex,  \* CardEditor's selectedIndex ({} when null)
    lastChange,     \* the last cell change asked for, and by whom
    edits,          \* number of cell changes asked for since Init
    sessionDetectWins, \* currentSession.detectWins
    celebratedWins,    \* celebratedWinsRef.current: the win keys celebrated
    showBingoOverlay,  \* App's showBingoOverlay
    winningCardName,   \* App's winningCardName
    announced,         \* ids of the cards the last evaluation celebrated
    celebrations,      \* celebrations triggered since the called list was
                       \* last empty, counted per (card, mode, winning lines)
    memory,            \* the objects the win-check effect last worked on,
                       \* as it left them
    celebratedBefore,  \* the win keys that were celebrated when the called
                       \* list was emptied
    visited,           \* the cells CardEditor has selected, in order
    currentSession,    \* the session store's currentSession ({} when null)
    clock,             \* Date.now()
    lastCall,          \* the last call made to the session store
    sessionBefore      \* currentSession as the last call found it, and
                       \* as the call before found it

columnVars == <<numArg, colArg, isValid, column>>

editorVars == <<cards, cardView, newCardCells, editingCardId, selectedIndex,
                lastChange, edits>>

appVars == <<sessionDetectWins, celebratedWins, showBingoOverlay,
             winningCardName, announced, celebrations, memory,
             celebratedBefore>>

pathVars == <<visited>>

storeVars == <<currentSession, clock, lastCall, sessionBefore>>

vars == <<card, calledNumbers, ruleMode, marks, completedLines, winResult,
          lastToggled, steps, pc, columnVars, editorVars, appVars,
          pathVars, storeVars>>

----------------------------------------------------------------------------
(* Bounds of the model *)

\* toggleCalledNumber calls explored from each initial called list
MaxToggles == 1

\* cells flipped away from a pattern in the engine's input mark vectors
MaxFlips == 1

\* how far beyond 1..75 the numbers handed to the column helpers go
NumMargin == 2

\* how far beyond 0..4 the columns handed to isValidNumberForColumn go
ColMargin == 2

\* cell changes explored from each initial editor state
MaxEdits == 2

\* handler calls explored from each initial state of the App
MaxAppSteps == 4

\* numbers picked in a row in the editor of a new card
MaxPicks == 25

\* cards created in the Cards tab
MaxCards == 2

\* calls made to the session store from each of its initial states
MaxStoreCalls == 4

\* handler calls explored when a win is reached a second time
MaxReplaySteps == 8

----------------------------------------------------------------------------
(* Core data model *)

CELL_COUNT == 25

GRID_SIZE == 5

FREE_INDEX == 12

MIN_NUMBER == 1

MAX_NUMBER == 75

CellIndices == 0 .. (CELL_COUNT - 1)

RULE_MODES == <<"STANDARD", "DOUBLE", "BOX", "X", "BLACKOUT", "NONE">>

COLUMN_RANGES ==
    [ c \in 0 .. 4 |->
        CASE c = 0 -> [ min |-> 1,  max |-> 15, letter |-> "B" ]
          [] c = 1 -> [ min |-> 16, max |-> 30, letter |-> "I" ]
          [] c = 2 -> [ min |-> 31, max |-> 45, letter |-> "N" ]
          [] c = 3 -> [ min |-> 46, max |-> 60, letter |-> "G" ]
          [] c = 4 -> [ min |-> 61, max |-> 75, letter |-> "O" ] ]

LINE_INDICES ==
    [ row0     |-> <<0, 1, 2, 3, 4>>,
      row1     |-> <<5, 6, 7, 8, 9>>,
      row2     |-> <<10, 11, 12, 13, 14>>,
      row3     |-> <<15, 16, 17, 18, 19>>,
      row4     |-> <<20, 21, 22, 23, 24>>,
      col0     |-> <<0, 5, 10, 15, 20>>,
      col1     |-> <<1, 6, 11, 16, 21>>,
      col2     |-> <<2, 7, 12, 17, 22>>,
      col3     |-> <<3, 8, 13, 18, 23>>,
      col4     |-> <<4, 9, 14, 19, 24>>,
      diagMain |-> <<0, 6, 12, 18, 24>>,
      diagAnti |-> <<4, 8, 12, 16, 20>> ]

\* Object.keys(LINE_INDICES): the keys in the order the literal lists them
LineKeys ==
    << "row0", "row1", "row2", "row3", "row4",
       "col0", "col1", "col2", "col3", "col4",
       "diagMain", "diagAnti" >>

PERIMETER_INDICES ==
    << 0, 1, 2, 3, 4,
       20, 21, 22, 23, 24,
       5, 10, 15,
       9, 14, 19 >>

\* mutant of createCell: row and column exchanged
createCellTransposed(index, number) ==
    LET isFree == (index = FREE_INDEX) IN
    [ index  |-> index,
      row    |-> index % GRID_SIZE,
      col    |-> index \div GRID_SIZE,
      number |-> IF isFree THEN {} ELSE number,
      isFree |-> isFree ]

createCell(index, number) ==
    LET isFree == (index = FREE_INDEX) IN
    [ index  |-> index,
      row    |-> index \div GRID_SIZE,
      col    |-> index % GRID_SIZE,
      number |-> IF isFree THEN {} ELSE number,
      isFree |-> isFree ]

\* createdAt (Date.now()) is left out: nothing reads it
createEmptyCard(id, name) ==
    LET cells == [ i \in CellIndices |-> createCell(i, {}) ] IN
    [ id            |-> id,
      name          |-> name,
      cells         |-> cells,
      hasFreeCenter |-> TRUE ]

\* COLUMN_RANGES[c] is undefined for a c that is not one of its keys
isValidNumberForColumn(n, c) ==
    IF c \notin DOMAIN COLUMN_RANGES THEN FALSE
    ELSE LET range == COLUMN_RANGES[c] IN
         n >= range.min /\ n <= range.max

\* mutant of getColumnForNumber: the number is not shifted to 0..74 first
getColumnForNumberUnshifted(n) ==
    IF n < MIN_NUMBER \/ n > MAX_NUMBER THEN -1
    ELSE n \div 15

getColumnForNumber(n) ==
    IF n < MIN_NUMBER \/ n > MAX_NUMBER THEN -1
    ELSE (n - 1) \div 15

----------------------------------------------------------------------------
(* Rules engine *)

\* new Set(calledNumbers)
SetOf(arr) == { arr[k] : k \in DOMAIN arr }

\* mutant of computeMarks: the free centre is treated like any other cell
computeMarksNoFree(c, called) ==
    LET calledSet == SetOf(called) IN
    [ i \in DOMAIN c.cells |->
        c.cells[i].number # {} /\ c.cells[i].number \subseteq calledSet ]

\* mutant of computeMarks: a cell without a number counts as marked
computeMarksUnassigned(c, called) ==
    LET calledSet == SetOf(called) IN
    [ i \in DOMAIN c.cells |->
        c.cells[i].isFree \/ c.cells[i].number \subseteq calledSet ]

\* mutant of computeMarks: membership tested with indexOf(n) > 0, which
\* misses the first number called
computeMarksIndexOf(c, called) ==
    [ i \in DOMAIN c.cells |->
        \/ c.cells[i].isFree
        \/ \E k \in DOMAIN called : k > 1 /\ c.cells[i].number = {called[k]} ]

computeMarks(c, called) ==
    LET calledSet == SetOf(called) IN
    [ i \in DOMAIN c.cells |->
        IF c.cells[i].isFree
        THEN TRUE
        ELSE c.cells[i].number # {} /\ c.cells[i].number \subseteq calledSet ]

\* marks[i] of an index outside the array is undefined, which is falsy
IsMarked(m, i) == i \in DOMAIN m /\ m[i]

isLineComplete(m, lineId) ==
    LET indices == LINE_INDICES[lineId] IN
    \A k \in DOMAIN indices : IsMarked(m, indices[k])

\* mutant of getCompletedLines: find instead of filter (the first line only)
getCompletedLinesFirst(m) ==
    LET all == SelectSeq(LineKeys, LAMBDA lineId : isLineComplete(m, lineId)) IN
    IF all = <<>> THEN <<>> ELSE << Head(all) >>

getCompletedLines(m) ==
    LET allLines == LineKeys IN
    SelectSeq(allLines, LAMBDA lineId : isLineComplete(m, lineId))

isBoxComplete(m) ==
    \A k \in DOMAIN PERIMETER_INDICES : IsMarked(m, PERIMETER_INDICES[k])

\* mutant of isXComplete: the main diagonal alone makes the X
isXCompleteMain(m) == isLineComplete(m, "diagMain")

isXComplete(m) == isLineComplete(m, "diagMain") /\ isLineComplete(m, "diagAnti")

\* mutant of isBlackout: the perimeter test in its place
isBlackoutPerimeter(m) == isBoxComplete(m)

isBlackout(m) == \A k \in DOMAIN m : m[k]

\* mutant of detectWinsStandard: only the first completed line is reported
detectWinsStandardFirstLine(completed, completedCount) ==
    IF completedCount >= 1
    THEN [ isWin |-> TRUE, winType |-> "Standard Bingo",
           winningLines |-> << Head(completed) >>,
           completedLineCount |-> completedCount ]
    ELSE [ isWin |-> FALSE, completedLineCount |-> 0 ]

\* case 'STANDARD'
detectWinsStandard(completed, completedCount) ==
    IF completedCount >= 1
    THEN [ isWin |-> TRUE, winType |-> "Standard Bingo",
           winningLines |-> completed,
           completedLineCount |-> completedCount ]
    ELSE [ isWin |-> FALSE, completedLineCount |-> 0 ]

\* mutant of detectWinsDouble: the loss reports 0 as the STANDARD loss does
detectWinsDoubleZeroOnLoss(completed, completedCount) ==
    IF completedCount >= 2
    THEN [ isWin |-> TRUE, winType |-> "Double Bingo",
           winningLines |-> completed,
           completedLineCount |-> completedCount ]
    ELSE [ isWin |-> FALSE, completedLineCount |-> 0 ]

\* case 'DOUBLE'
detectWinsDouble(completed, completedCount) ==
    IF completedCount >= 2
    THEN [ isWin |-> TRUE, winType |-> "Double Bingo",
           winningLines |-> completed,
           completedLineCount |-> completedCount ]
    ELSE [ isWin |-> FALSE, completedLineCount |-> completedCount ]

\* mutant of detectWinsBox: a box win needs four completed lines only
detectWinsBoxByCount(m, completedCount) ==
    IF completedCount >= 4
    THEN [ isWin |-> TRUE, winType |-> "Box Bingo",
           completedLineCount |-> completedCount ]
    ELSE [ isWin |-> FALSE, completedLineCount |-> completedCount ]

\* mutant of detectWinsBox: the winning result leaves the count out
detectWinsBoxNoCount(m, completedCount) ==
    IF isBoxComplete(m)
    THEN [ isWin |-> TRUE, winType |-> "Box Bingo" ]
    ELSE [ isWin |-> FALSE, completedLineCount |-> completedCount ]

\* case 'BOX'
detectWinsBox(m, completedCount) ==
    IF isBoxComplete(m)
    THEN [ isWin |-> TRUE, winType |-> "Box Bingo",
           completedLineCount |-> completedCount ]
    ELSE [ isWin |-> FALSE, completedLineCount |-> completedCount ]

\* mutant of detectWinsX: every completed line is reported, as STANDARD does
detectWinsXAllLines(m, completed, completedCount) ==
    IF isXComplete(m)
    THEN [ isWin |-> TRUE, winType |-> "X Bingo",
           winningLines |-> completed,
           completedLineCount |-> completedCount ]
    ELSE [ isWin |-> FALSE, completedLineCount |-> completedCount ]

\* case 'X'
detectWinsX(m, completed, completedCount) ==
    IF isXComplete(m)
    THEN [ isWin |-> TRUE, winType |-> "X Bingo",
           winningLines |-> <<"diagMain", "diagAnti">>,
           completedLineCount |-> completedCount ]
    ELSE [ isWin |-> FALSE, completedLineCount |-> completedCount ]

\* case 'BLACKOUT'
detectWinsBlackout(m, completedCount) ==
    IF isBlackout(m)
    THEN [ isWin |-> TRUE, winType |-> "Blackout",
           completedLineCount |-> completedCount ]
    ELSE [ isWin |-> FALSE, completedLineCount |-> completedCount ]

\* switch (ruleMode)
detectWinsSwitch(m, mode, completed, completedCount) ==
    CASE mode = "STANDARD" -> detectWinsStandard(completed, completedCount)
      [] mode = "DOUBLE"   -> detectWinsDouble(completed, completedCount)
      [] mode = "BOX"      -> detectWinsBox(m, completedCount)
      [] mode = "X"        -> detectWinsX(m, completed, completedCount)
      [] mode = "BLACKOUT" -> detectWinsBlackout(m, completedCount)
      [] OTHER             -> [ isWin |-> FALSE ]

\* mutant of detectWins: no early return for NONE and a default branch that
\* reports the count as the losing branches do
detectWinsCountByDefault(c, m, mode) ==
    LET completed == getCompletedLines(m)
        completedCount == Len(completed)
    IN  IF mode \in {"STANDARD", "DOUBLE", "BOX", "X", "BLACKOUT"}
        THEN detectWinsSwitch(m, mode, completed, completedCount)
        ELSE [ isWin |-> FALSE, completedLineCount |-> completedCount ]

\* mutant of detectWins: a card without cells never wins
detectWinsNeedsCells(c, m, mode) ==
    IF mode = "NONE" \/ DOMAIN c.cells = {} THEN [ isWin |-> FALSE ]
    ELSE LET completed == getCompletedLines(m)
             completedCount == Len(completed)
         IN  detectWinsSwitch(m, mode, completed, completedCount)

detectWins(c, m, mode) ==
    IF mode = "NONE" THEN [ isWin |-> FALSE ]
    ELSE LET completed == getCompletedLines(m)
             completedCount == Len(completed)
         IN  detectWinsSwitch(m, mode, completed, completedCount)

----------------------------------------------------------------------------
(* Session store *)

\* calledNumbers.indexOf(num), 1-based; 0 when absent
IndexOf(arr, num) ==
    IF \E k \in DOMAIN arr : arr[k] = num
    THEN CHOOSE k \in DOMAIN arr :
            arr[k] = num /\ \A j \in DOMAIN arr : arr[j] = num => k <= j
    ELSE 0

\* calledNumbers.splice(index, 1)
Splice1(arr, index) == SubSeq(arr, 1, index - 1) \o SubSeq(arr, index + 1, Len(arr))

\* mutant of toggleCalledNumber: the number is pushed whether it is in the
\* list or not
toggleCalledNumberPush(called, num) == Append(called, num)

\* mutant of toggleCalledNumber: a number that is in the list takes the last
\* one out
toggleCalledNumberPop(called, num) ==
    LET index == IndexOf(called, num) IN
    IF index >= 1 THEN SubSeq(called, 1, Len(called) - 1)
    ELSE Append(called, num)

toggleCalledNumber(called, num) ==
    LET index == IndexOf(called, num) IN
    IF index >= 1 THEN Splice1(called, index) ELSE Append(called, num)

----------------------------------------------------------------------------
(* Inputs explored *)

MarksOf(S) == [ i \in CellIndices |-> i \in S ]

LineCells(lineId) == SetOf(LINE_INDICES[lineId])

LineIds == SetOf(LineKeys)

PerimeterCells == SetOf(PERIMETER_INDICES)

\* the shapes the rule modes are about: nothing, one line, two lines,
\* the perimeter, the whole card
Patterns ==
    {{}} \cup { LineCells(l) : l \in LineIds }
         \cup { LineCells(a) \cup LineCells(b) : a \in LineIds, b \in LineIds }
         \cup { PerimeterCells, CellIndices }

RECURSIVE Flips(_)
Flips(k) ==
    IF k = 0 THEN {{}}
    ELSE LET P == Flips(k - 1) IN P \cup { F \cup {i} : F \in P, i \in CellIndices }

\* every pattern, with at most MaxFlips cells flipped (the centre included)
MarkInputs ==
    { MarksOf((P \ F) \cup (F \ P)) : P \in Patterns, F \in Flips(MaxFlips) }

\* the six rule modes and a value outside the enumeration
RuleModeInputs == SetOf(RULE_MODES) \cup {"CORNERS"}

\* a complete card: column c holds numbers of 15c+1 .. 15c+15
SampleNumbers ==
    <<  1, 16, 31, 46, 61,
        7, 22, 40, 52, 70,
       12, 29, 38, 58, 64,
        3, 18, 45, 49, 75,
       15, 30, 33, 60, 68 >>

SampleCard ==
    [ cells |-> [ i \in CellIndices |-> createCell(i, {SampleNumbers[i + 1]}) ],
      hasFreeCenter |-> TRUE ]

\* the same card being edited: two of its cells cleared
ClearedCells == {0, 13}

PartialCard ==
    [ cells |-> [ i \in CellIndices |->
                    createCell(i, IF i \in ClearedCells THEN {}
                                  ELSE {SampleNumbers[i + 1]}) ],
      hasFreeCenter |-> TRUE ]

RECURSIVE NumbersFrom(_, _, _)
NumbersFrom(c, P, i) ==
    IF i \notin DOMAIN c.cells THEN <<>>
    ELSE (IF i \in P /\ c.cells[i].number # {}
          THEN << CHOOSE n \in c.cells[i].number : TRUE >>
          ELSE <<>>) \o NumbersFrom(c, P, i + 1)

\* the numbers of the card's cells in P, in cell order
NumbersAt(c, P) == NumbersFrom(c, P, 0)

XCells == LineCells("diagMain") \cup LineCells("diagAnti")

\* called exactly: nothing, one line, the X, the perimeter, the whole card
CallPatterns ==
    {{}} \cup { LineCells(l) : l \in LineIds }
         \cup { XCells, PerimeterCells, CellIndices }

\* called but for one number: two crossing lines, the X, the whole card
NearPatterns ==
    { P \ {i} : P \in { LineCells("row0") \cup LineCells("col0"),
                         XCells, CellIndices },
                i \in CellIndices }

\* a card as createEmptyCard hands it out
EmptyCard == createEmptyCard("card-new", "Card 1")

\* the (card, called numbers) pairs a session starts from
InitInputs ==
    { [ card |-> PartialCard, called |-> NumbersAt(SampleCard, P) ] :
        P \in CallPatterns }
    \cup
    { [ card |-> SampleCard, called |-> NumbersAt(SampleCard, P) ] :
        P \in CallPatterns \cup NearPatterns }
    \cup
    { [ card |-> EmptyCard, called |-> <<>> ] }

\* every number of the sample card, one in range that is on no cell, and
\* the two nearest values outside 1..75
CallableNumbers ==
    SetOf(NumbersAt(SampleCard, CellIndices))
        \cup {2, MIN_NUMBER - 1, MAX_NUMBER + 1}

NoResult == [ pending |-> TRUE ]

\* the column helpers have not been called
ColumnsIdle ==
    /\ numArg = 0
    /\ colArg = 0
    /\ isValid = FALSE
    /\ column = -1

NoChange == [ index |-> -1, number |-> {}, by |-> "nobody" ]

\* the Cards tab shows the list of an empty store
EditorIdle ==
    /\ cards = <<>>
    /\ cardView = "list"
    /\ newCardCells = <<>>
    /\ editingCardId = {}
    /\ selectedIndex = {}
    /\ lastChange = NoChange
    /\ edits = 0

\* what the win-check effect has to work on before it has looked at a card
NoObjects(called) ==
    [ card             |-> {},
      calledNumbers    |-> called,
      marks            |-> <<>>,
      winningLines     |-> <<>>,
      lineIndices      |-> LINE_INDICES,
      perimeterIndices |-> PERIMETER_INDICES ]

\* the App is mounted without a win to show
AppIdle ==
    /\ sessionDetectWins = TRUE
    /\ celebratedWins = {}
    /\ showBingoOverlay = FALSE
    /\ winningCardName = ""
    /\ announced = {}
    /\ celebrations = <<>>
    /\ memory = NoObjects(<<>>)
    /\ celebratedBefore = {}

\* no selection of the editor has been recorded
PathIdle == visited = <<>>

NoCall == [ op |-> "none", args |-> <<>>, prev |-> << "none", <<>> >> ]

\* the session store holds no session and has not been called
StoreIdle ==
    /\ currentSession = {}
    /\ clock = 0
    /\ lastCall = NoCall
    /\ sessionBefore = <<>>

----------------------------------------------------------------------------
(* The session: called numbers and rule mode change, every card is          *)
(* re-rendered from them.                                                   *)

Render(c, called, mode) ==
    LET m == computeMarks(c, called) IN
    /\ marks' = m
    /\ winResult' = detectWins(c, m, mode)

Init ==
    /\ \E input \in InitInputs :
          /\ card = input.card
          /\ calledNumbers = input.called
    /\ ruleMode \in SetOf(RULE_MODES)
    /\ marks = computeMarks(card, calledNumbers)
    /\ winResult = detectWins(card, marks, ruleMode)
    /\ completedLines = <<>>
    /\ lastToggled = {}
    /\ steps = 0
    /\ pc = "session"
    /\ ColumnsIdle
    /\ EditorIdle
    /\ AppIdle
    /\ PathIdle
    /\ StoreIdle

ToggleCalledNumber(num) ==
    /\ steps < MaxToggles
    /\ calledNumbers' = toggleCalledNumber(calledNumbers, num)
    /\ lastToggled' = {num}
    /\ steps' = steps + 1
    /\ Render(card, calledNumbers', ruleMode)
    /\ UNCHANGED <<card, ruleMode, completedLines, pc,
                 columnVars, editorVars, appVars, pathVars, storeVars>>

SetRuleMode(mode) ==
    /\ ruleMode' = mode
    /\ Render(card, calledNumbers, mode)
    /\ UNCHANGED <<card, calledNumbers, completedLines, lastToggled, steps, pc,
                 columnVars, editorVars, appVars, pathVars, storeVars>>

ResetMarks ==
    /\ calledNumbers' = <<>>
    /\ lastToggled' = {}
    /\ Render(card, <<>>, ruleMode)
    /\ UNCHANGED <<card, ruleMode, completedLines, steps, pc,
                 columnVars, editorVars, appVars, pathVars, storeVars>>

Next ==
    \/ \E num \in CallableNumbers : ToggleCalledNumber(num)
    \/ \E mode \in SetOf(RULE_MODES) : SetRuleMode(mode)
    \/ ResetMarks

Spec == Init /\ [][Next]_vars

----------------------------------------------------------------------------
(* The engine on its own: a mark vector and a rule mode are given, then     *)
(* getCompletedLines and detectWins are applied to them.                    *)

EngineInit ==
    /\ card = SampleCard
    /\ calledNumbers = <<>>
    /\ marks \in MarkInputs
    /\ ruleMode \in RuleModeInputs
    /\ completedLines = <<>>
    /\ winResult = NoResult
    /\ lastToggled = {}
    /\ steps = 0
    /\ pc = "input"
    /\ ColumnsIdle
    /\ EditorIdle
    /\ AppIdle
    /\ PathIdle
    /\ StoreIdle

GetCompletedLines ==
    /\ pc = "input"
    /\ completedLines' = getCompletedLines(marks)
    /\ pc' = "lines"
    /\ UNCHANGED <<card, calledNumbers, ruleMode, marks, winResult, lastToggled, steps,
                 columnVars, editorVars, appVars, pathVars, storeVars>>

DetectWins ==
    /\ pc = "lines"
    /\ winResult' = detectWins(card, marks, ruleMode)
    /\ pc' = "done"
    /\ UNCHANGED <<card, calledNumbers, ruleMode, marks, completedLines, lastToggled, steps,
                 columnVars, editorVars, appVars, pathVars, storeVars>>

EngineNext == GetCompletedLines \/ DetectWins

SpecEngine == EngineInit /\ [][EngineNext]_vars

----------------------------------------------------------------------------
(* The column helpers on their own: a number and a column are given, then   *)
(* isValidNumberForColumn and getColumnForNumber are applied to them.       *)

sessionVars == <<card, calledNumbers, ruleMode, marks, completedLines,
                 winResult, lastToggled, steps>>

NumInputs == (MIN_NUMBER - NumMargin) .. (MAX_NUMBER + NumMargin)

ColInputs == (0 - ColMargin) .. (GRID_SIZE - 1 + ColMargin)

ColumnsInit ==
    /\ card = SampleCard
    /\ calledNumbers = <<>>
    /\ ruleMode = "NONE"
    /\ marks = computeMarks(card, calledNumbers)
    /\ completedLines = <<>>
    /\ winResult = NoResult
    /\ lastToggled = {}
    /\ steps = 0
    /\ pc = "columns"
    /\ numArg \in NumInputs
    /\ colArg \in ColInputs
    /\ isValid = FALSE
    /\ column = -1
    /\ EditorIdle
    /\ AppIdle
    /\ PathIdle
    /\ StoreIdle

IsValidNumberForColumn ==
    /\ pc = "columns"
    /\ isValid' = isValidNumberForColumn(numArg, colArg)
    /\ pc' = "validated"
    /\ UNCHANGED <<sessionVars, editorVars, appVars, pathVars, storeVars, numArg, colArg, column>>

GetColumnForNumber ==
    /\ pc = "validated"
    /\ column' = getColumnForNumber(numArg)
    /\ pc' = "located"
    /\ UNCHANGED <<sessionVars, editorVars, appVars, pathVars, storeVars, numArg, colArg, isValid>>

ColumnsNext == IsValidNumberForColumn \/ GetColumnForNumber

SpecColumns == ColumnsInit /\ [][ColumnsNext]_vars

----------------------------------------------------------------------------
(* The card editor: CardEditor over the card being created (App's           *)
(* newCardCells) or over a card of the store.                               *)

\* cards.find(card => card.id === id): {} when there is none
getCard(cs, id) == { cs[k] : k \in { j \in DOMAIN cs : cs[j].id = id } }

\* mutant of setCellNumber: the number is stored at index 12 as well
setCellNumberAnywhere(cs, cardId, cellIndex, number) ==
    [ k \in DOMAIN cs |->
        IF cs[k].id # cardId THEN cs[k]
        ELSE IF cellIndex \in DOMAIN cs[k].cells
             THEN [ cs[k] EXCEPT !.cells[cellIndex].number = number ]
             ELSE cs[k] ]

setCellNumber(cs, cardId, cellIndex, number) ==
    [ k \in DOMAIN cs |->
        IF cs[k].id # cardId THEN cs[k]
        ELSE IF cellIndex \in DOMAIN cs[k].cells
             THEN [ cs[k] EXCEPT !.cells[cellIndex].number =
                        IF cellIndex = FREE_INDEX THEN {} ELSE number ]
             ELSE cs[k] ]

\* called by the editor only, with the index of a cell
handleNewCardCellChange(prev, index, number) ==
    [ prev EXCEPT ![index].number = number ]

\* the card prop CardEditor is rendered with ({} when no editor is shown)
EditorCard ==
    CASE cardView = "new" ->
           { [ id |-> "new", name |-> "Card 1", cells |-> newCardCells,
               hasFreeCenter |-> TRUE ] }
      [] cardView = "edit" ->
           UNION { getCard(cards, id) : id \in editingCardId }
      [] OTHER -> {}

getUsedNumbersInColumn(c, colIx) ==
    UNION { c.cells[row * GRID_SIZE + colIx].number :
              row \in { r \in 0 .. (GRID_SIZE - 1) :
                          r * GRID_SIZE + colIx # FREE_INDEX } }

\* every cell but the free centre has a number
validateCard(c) ==
    \A i \in DOMAIN c.cells :
        i = FREE_INDEX \/ c.cells[i].number # {}

\* mutant of getNextCellIndex: the free centre ends its column
getNextCellIndexLeavesColumn(currentIndex) ==
    LET colIx == currentIndex % GRID_SIZE
        row   == currentIndex \div GRID_SIZE
    IN  IF row < 4
        THEN LET nextIndex == (row + 1) * GRID_SIZE + colIx IN
             IF nextIndex = FREE_INDEX
             THEN (IF colIx < 4 THEN {colIx + 1} ELSE {})
             ELSE {nextIndex}
        ELSE IF colIx < 4 THEN {colIx + 1} ELSE {}

getNextCellIndex(currentIndex) ==
    LET colIx == currentIndex % GRID_SIZE
        row   == currentIndex \div GRID_SIZE
    IN  IF row < 4
        THEN LET nextIndex == (row + 1) * GRID_SIZE + colIx IN
             IF nextIndex = FREE_INDEX
             THEN (IF row + 1 < 4 THEN {(row + 2) * GRID_SIZE + colIx}
                   ELSE IF colIx < 4 THEN {colIx + 1} ELSE {})
             ELSE {nextIndex}
        ELSE IF colIx < 4 THEN {colIx + 1} ELSE {}

\* mutant of isUsed: no picker button is disabled
isUsedNever(c, sel, n) == FALSE

\* the picker button of n is disabled
isUsed(c, sel, n) ==
    LET usedNumbers == getUsedNumbersInColumn(c, sel % GRID_SIZE)
        currentCellNumber == c.cells[sel].number
    IN  n \in usedNumbers /\ {n} # currentCellNumber

\* the buttons of the picker clicked in the model: the first two and the
\* last of its 15
PickOffsets == {0, 1, 14}

\* the numbers of those buttons that are enabled
PickerNumbers(c, sel) ==
    LET range == COLUMN_RANGES[sel % GRID_SIZE] IN
    { n \in { range.min + i : i \in PickOffsets } : ~isUsed(c, sel, n) }

\* the cells clicked in the model
ClickCells == {0, 5, 7, 12, 20, 24}

\* onCellChange, as App wires it for the view shown
OnCellChange(index, number) ==
    /\ lastChange' = [ index |-> index, number |-> number, by |-> "editor" ]
    /\ edits' = edits + 1
    /\ IF cardView = "new"
       THEN /\ newCardCells' = handleNewCardCellChange(newCardCells, index, number)
            /\ cards' = cards
       ELSE /\ cards' = IF editingCardId # {}
                         THEN setCellNumber(cards,
                                  CHOOSE id \in editingCardId : TRUE,
                                  index, number)
                         ELSE cards
            /\ newCardCells' = newCardCells

\* a card with no numbers, as createNewCard puts it into the store
StoredCard == createEmptyCard("card-1", "Card 1")

\* the cells the editor starts from: none filled, or all but two
EditorCells == { EmptyCard.cells, PartialCard.cells }

EditorInit ==
    /\ card = SampleCard
    /\ calledNumbers = <<>>
    /\ ruleMode = "NONE"
    /\ marks = computeMarks(card, calledNumbers)
    /\ completedLines = <<>>
    /\ winResult = NoResult
    /\ lastToggled = {}
    /\ steps = 0
    /\ pc = "editor"
    /\ ColumnsIdle
    /\ AppIdle
    /\ PathIdle
    /\ StoreIdle
    /\ cardView \in {"new", "edit"}
    /\ \E cells \in EditorCells :
          IF cardView = "new"
          THEN /\ newCardCells = cells
               /\ cards = << StoredCard >>
               /\ editingCardId = {}
          ELSE /\ newCardCells = <<>>
               /\ cards = << [ StoredCard EXCEPT !.cells = cells ] >>
               /\ editingCardId = {StoredCard.id}
    /\ selectedIndex = {0}
    /\ lastChange = NoChange
    /\ edits = 0

HandleCellClick(index) ==
    /\ EditorCard # {}
    /\ selectedIndex' = IF index = FREE_INDEX THEN selectedIndex ELSE {index}
    /\ UNCHANGED <<sessionVars, pc, columnVars, appVars, pathVars, storeVars, cards, cardView, newCardCells,
                   editingCardId, lastChange, edits>>

HandleNumberSelect(n) ==
    /\ edits < MaxEdits
    /\ \E c \in EditorCard : \E sel \in selectedIndex :
          /\ sel # FREE_INDEX
          /\ n \in PickerNumbers(c, sel)
          /\ OnCellChange(sel, {n})
          /\ LET nextIndex == getNextCellIndex(sel) IN
             selectedIndex' = IF nextIndex # {} THEN nextIndex ELSE selectedIndex
    /\ UNCHANGED <<sessionVars, pc, columnVars, appVars, pathVars, storeVars, cardView, editingCardId>>

\* the Clear button is there when the selected cell has a number
HandleClearCell ==
    /\ edits < MaxEdits
    /\ \E c \in EditorCard : \E sel \in selectedIndex :
          /\ sel # FREE_INDEX
          /\ c.cells[sel].number # {}
          /\ OnCellChange(sel, {})
    /\ UNCHANGED <<sessionVars, pc, columnVars, appVars, pathVars, storeVars, cardView, editingCardId,
                   selectedIndex>>

EditorNext ==
    \/ \E index \in ClickCells : HandleCellClick(index)
    \/ \E n \in MIN_NUMBER .. MAX_NUMBER : HandleNumberSelect(n)
    \/ HandleClearCell

SpecEditor == EditorInit /\ [][EditorNext]_vars

----------------------------------------------------------------------------
(* The editor together with direct calls of the store's setCellNumber.      *)

StoreCardIds == { StoredCard.id, "card-0" }

StoreCellIndices == { -1, 0, 5, FREE_INDEX, CELL_COUNT }

\* undefined, a number, and a number outside every column range
StoreNumbers == { {}, {1}, {MAX_NUMBER + 1} }

SetCellNumber(cardId, cellIndex, number) ==
    /\ edits < MaxEdits
    /\ cards' = setCellNumber(cards, cardId, cellIndex, number)
    /\ lastChange' = [ index |-> cellIndex, number |-> number, by |-> "store" ]
    /\ edits' = edits + 1
    /\ UNCHANGED <<sessionVars, pc, columnVars, appVars, pathVars, storeVars, cardView, newCardCells,
                   editingCardId, selectedIndex>>

CardsNext ==
    \/ EditorNext
    \/ \E cardId \in StoreCardIds, cellIndex \in StoreCellIndices,
          number \in StoreNumbers : SetCellNumber(cardId, cellIndex, number)

SpecCards == EditorInit /\ [][CardsNext]_vars

----------------------------------------------------------------------------
(* The Cards tab: the list of the stored cards, the editor of a new card    *)
(* and the editor of a stored card.                                         *)

\* generateId() gives every card an id of its own
GeneratedIds == << "card-1", "card-2", "card-3", "card-4", "card-5" >>

generateId(cs) == GeneratedIds[Len(cs) + 1]

\* `Card ${cards.length + 1}`
CardNames == << "Card 1", "Card 2", "Card 3", "Card 4", "Card 5" >>

addCard(cs, cardData) ==
    Append(cs, [ id            |-> generateId(cs),
                 name          |-> cardData.name,
                 cells         |-> cardData.cells,
                 hasFreeCenter |-> cardData.hasFreeCenter ])

\* the new card as the editor shows it when every cell but the last of the
\* traversal has been given its number
AlmostFilled ==
    [ i \in CellIndices |->
        createCell(i, IF i = CELL_COUNT - 1 THEN {}
                      ELSE {SampleNumbers[i + 1]}) ]

\* the Cards tab of an empty store: either its list, or the editor of a new
\* card in which 23 numbers have been picked
CardsTabInit ==
    /\ card = SampleCard
    /\ calledNumbers = <<>>
    /\ ruleMode = "STANDARD"
    /\ marks = computeMarks(card, calledNumbers)
    /\ completedLines = <<>>
    /\ winResult = NoResult
    /\ lastToggled = {}
    /\ steps = 0
    /\ pc = "cards"
    /\ ColumnsIdle
    /\ AppIdle
    /\ PathIdle
    /\ StoreIdle
    /\ cards = <<>>
    /\ editingCardId = {}
    /\ lastChange = NoChange
    /\ edits = 0
    /\ \/ /\ cardView = "list"
          /\ newCardCells = <<>>
          /\ selectedIndex = {}
       \/ /\ cardView = "new"
          /\ newCardCells = AlmostFilled
          /\ selectedIndex = {CELL_COUNT - 1}

cardsTabFrame == <<sessionVars, pc, columnVars, appVars, pathVars, storeVars,
                   lastChange, edits>>

\* CardEditor is mounted with selectedIndex 0
HandleCreateCard ==
    /\ cardView = "list"
    /\ Len(cards) < MaxCards
    /\ newCardCells' = [ i \in CellIndices |-> createCell(i, {}) ]
    /\ cardView' = "new"
    /\ selectedIndex' = {0}
    /\ UNCHANGED <<cardsTabFrame, cards, editingCardId>>

\* the Save Card button of the new card's editor is disabled unless the card
\* is valid
HandleSaveNewCard ==
    /\ cardView = "new"
    /\ \A c \in EditorCard : validateCard(c)
    /\ cards' = addCard(cards, [ name          |-> CardNames[Len(cards) + 1],
                                 cells         |-> newCardCells,
                                 hasFreeCenter |-> TRUE ])
    /\ cardView' = "list"
    /\ selectedIndex' = {}
    /\ UNCHANGED <<cardsTabFrame, newCardCells, editingCardId>>

HandleEditCard(cardId) ==
    /\ cardView = "list"
    /\ getCard(cards, cardId) # {}
    /\ editingCardId' = {cardId}
    /\ cardView' = "edit"
    /\ selectedIndex' = {0}
    /\ UNCHANGED <<cardsTabFrame, cards, newCardCells>>

\* Cancel in either editor, and Save Card in the editor of a stored card
\* (when the card is valid): setCardView('list')
HandleCancel ==
    /\ cardView \in {"new", "edit"}
    /\ cardView' = "list"
    /\ selectedIndex' = {}
    /\ UNCHANGED <<cardsTabFrame, cards, newCardCells, editingCardId>>

CardsTabNext ==
    \/ HandleCreateCard
    \/ HandleSaveNewCard
    \/ \E k \in DOMAIN GeneratedIds : HandleEditCard(GeneratedIds[k])
    \/ HandleCancel
    \/ \E index \in ClickCells : HandleCellClick(index)
    \/ \E n \in MIN_NUMBER .. MAX_NUMBER : HandleNumberSelect(n)
    \/ HandleClearCell

SpecCardsTab == CardsTabInit /\ [][CardsTabNext]_vars

----------------------------------------------------------------------------
(* The editor of a new card when numbers are picked one after the other:    *)
(* a cell is selected, then the first enabled button of the picker is       *)
(* clicked again and again.                                                 *)

\* the number of the first button of the picker that is not disabled
FirstEnabled(c, sel) ==
    LET range == COLUMN_RANGES[sel % GRID_SIZE]
        enabled == { n \in range.min .. range.max : ~isUsed(c, sel, n) }
    IN  CHOOSE n \in enabled : \A k \in enabled : n <= k

\* CardEditor is mounted on an empty new card (selectedIndex 0); a click on
\* another cell may follow
TraverseInit ==
    /\ card = SampleCard
    /\ calledNumbers = <<>>
    /\ ruleMode = "STANDARD"
    /\ marks = computeMarks(card, calledNumbers)
    /\ completedLines = <<>>
    /\ winResult = NoResult
    /\ lastToggled = {}
    /\ steps = 0
    /\ pc = "traverse"
    /\ ColumnsIdle
    /\ AppIdle
    /\ StoreIdle
    /\ cards = <<>>
    /\ cardView = "new"
    /\ newCardCells = EmptyCard.cells
    /\ editingCardId = {}
    /\ lastChange = NoChange
    /\ edits = 0
    /\ \E start \in CellIndices \ {FREE_INDEX} :
          /\ selectedIndex = {start}
          /\ visited = << start >>

\* handleNumberSelect with the number of the first enabled button
PickFirstEnabled ==
    /\ edits < MaxPicks
    /\ \E c \in EditorCard : \E sel \in selectedIndex :
          /\ sel # FREE_INDEX
          /\ OnCellChange(sel, {FirstEnabled(c, sel)})
          /\ LET nextIndex == getNextCellIndex(sel) IN
             /\ selectedIndex' = IF nextIndex # {} THEN nextIndex ELSE selectedIndex
             /\ visited' = IF nextIndex # {}
                           THEN Append(visited, CHOOSE i \in nextIndex : TRUE)
                           ELSE visited
    /\ UNCHANGED <<sessionVars, pc, columnVars, appVars, storeVars, cardView,
                   editingCardId>>

TraverseNext == PickFirstEnabled

SpecTraverse == TraverseInit /\ [][TraverseNext]_vars

----------------------------------------------------------------------------
(* The App: the session tab over the cards of the store.  Every handler is  *)
(* followed by the re-render and by the effects whose dependencies changed: *)
(* the win-check effect first, the clear-celebrated effect second.          *)

\* an optional field of an object is set
HasField(r, f) == f \in DOMAIN r

\* the line ids in the order Array.prototype.sort() puts them (by code unit)
SortedLineKeys ==
    << "col0", "col1", "col2", "col3", "col4",
       "diagAnti", "diagMain",
       "row0", "row1", "row2", "row3", "row4" >>

\* sort() of an array of distinct line ids
sortLines(arr) == SelectSeq(SortedLineKeys, LAMBDA l : l \in SetOf(arr))

\* where String(n) stands among the strings of 0..99: "3" after "29" and
\* before "30"
StringRank(n) == IF n < 10 THEN 20 * n ELSE 2 * n + 1

\* sort() of an array of distinct numbers of 0..99: by their strings
sortNumbers(arr) ==
    LET S == SetOf(arr)
        place(x) == 1 + Cardinality({ y \in S : StringRank(y) < StringRank(x) })
    IN  [ k \in 1 .. Cardinality(S) |-> CHOOSE x \in S : place(x) = k ]

\* mutant of SortTarget: the effect sorts the called numbers in place
SortTargetCalled == "calledNumbers"

\* the array the effect sorts in place: the result's winningLines, which is
\* the array filter() made in getCompletedLines or the literal of the X case
SortTarget == "winningLines"

sortInPlace(objs, target) ==
    IF target = "calledNumbers"
    THEN [ objs EXCEPT !.calledNumbers = sortNumbers(@) ]
    ELSE [ objs EXCEPT !.winningLines = sortLines(@) ]

\* mutant of winKey: the key of the first revision (src/App.tsx:44)
winKeyByCount(c, called, mode, winningLines) == << c.id, Len(called), mode >>

\* `${card.id}-${ruleMode}-${winningLines}`; mode and line ids hold no "-",
\* so two keys are equal exactly when the three parts are; the joined lines
\* are kept as the sequence joined ('' for none)
winKey(c, called, mode, winningLines) == << c.id, mode, winningLines >>

\* the guard of the win-check effect (a session exists throughout); the
\* session's detectWins is not read
WinCheckEnabled(mode) == mode # "NONE"

\* the for loop of the win-check effect from card k on; gives the objects
\* as the loop leaves them, the celebrated keys and the card celebrated
RECURSIVE winCheckLoop(_, _, _, _, _)
winCheckLoop(cs, k, objs, mode, celebrated) ==
    IF k > Len(cs)
    THEN [ objs |-> objs, celebrated |-> celebrated, won |-> {} ]
    ELSE LET c == cs[k]
             m == computeMarks(c, objs.calledNumbers)
             result == detectWins(c, m, mode)
             seen == [ objs EXCEPT !.card = {c}, !.marks = m,
                         !.winningLines =
                             IF HasField(result, "winningLines")
                             THEN result.winningLines ELSE <<>> ]
         IN  IF result.isWin
             THEN LET sorted == IF HasField(result, "winningLines")
                                THEN sortInPlace(seen, SortTarget) ELSE seen
                      key == winKey(c, sorted.calledNumbers, mode,
                                    sorted.winningLines)
                  IN  IF key \notin celebrated
                      THEN [ objs |-> sorted,
                             celebrated |-> celebrated \cup {key},
                             won |-> {c} ]
                      ELSE winCheckLoop(cs, k + 1, sorted, mode, celebrated)
             ELSE winCheckLoop(cs, k + 1, seen, mode, celebrated)

\* isWinner of the BingoCard rendered for card c; the session's detectWins
\* is not read here either
isWinner(c, called, mode) ==
    detectWins(c, computeMarks(c, called), mode).isWin

\* the card literal getWinningIndices hands to detectWins
CellLessCard ==
    [ cells |-> <<>>, name |-> "", id |-> "", hasFreeCenter |-> TRUE ]

\* mutant of getWinningIndices: every completed line is highlighted
getWinningIndicesCompleted(m, mode) ==
    UNION { SetOf(LINE_INDICES[lineId]) : lineId \in SetOf(getCompletedLines(m)) }

\* the Set of indices the session tab highlights on a card
getWinningIndices(m, mode) ==
    LET result == detectWins(CellLessCard, m, mode) IN
    IF result.isWin /\ HasField(result, "winningLines")
    THEN UNION { SetOf(LINE_INDICES[lineId]) :
                   lineId \in SetOf(result.winningLines) }
    ELSE {}

\* the cards rendered as winners
Winners == { c \in SetOf(cards) : isWinner(c, calledNumbers, ruleMode) }

\* the (card, mode, winning lines) a celebration is for
Celebration(c, called, mode) ==
    LET r == detectWins(c, computeMarks(c, called), mode) IN
    [ card  |-> c.id,
      mode  |-> mode,
      lines |-> IF HasField(r, "winningLines") THEN SetOf(r.winningLines)
                ELSE {} ]

\* mutant of clearCelebrated: the set is never cleared
clearCelebratedNever(celebrated, lengthChanged, length) == celebrated

\* the clear-celebrated effect: it runs when calledNumbers.length changed
clearCelebrated(celebrated, lengthChanged, length) ==
    IF lengthChanged /\ length = 0 THEN {} ELSE celebrated

\* the effects after a render: winCheck says whether the dependencies of the
\* win-check effect changed, lengthChanged whether calledNumbers.length did
Effects(called, mode, winCheck, lengthChanged) ==
    LET ran == winCheck /\ WinCheckEnabled(mode)
        out == IF ran
               THEN winCheckLoop(cards, 1, NoObjects(called), mode, celebratedWins)
               ELSE [ objs |-> NoObjects(called),
                      celebrated |-> celebratedWins, won |-> {} ]
        after == out.objs.calledNumbers
    IN  /\ calledNumbers' = after
        /\ memory' = out.objs
        /\ celebratedWins' = clearCelebrated(out.celebrated, lengthChanged,
                                             Len(after))
        /\ celebratedBefore' = IF Len(after) = 0 /\ Len(calledNumbers) # 0
                               THEN celebratedBefore \cup out.celebrated
                               ELSE celebratedBefore
        /\ announced' = { c.id : c \in out.won }
        /\ showBingoOverlay' = (out.won # {} \/ showBingoOverlay)
        /\ winningCardName' = IF out.won # {}
                               THEN (CHOOSE c \in out.won : TRUE).name
                               ELSE winningCardName
        /\ celebrations' =
              IF Len(after) = 0 THEN <<>>
              ELSE IF out.won # {}
                   THEN Append(celebrations,
                               Celebration(CHOOSE c \in out.won : TRUE,
                                           after, mode))
                   ELSE celebrations

\* a second card: the sample card with its rows 1 and 4 exchanged, so that
\* row 0, row 2, row 3 and the columns hold the same numbers on both
OtherRow(i) ==
    LET row == i \div GRID_SIZE IN
    IF row = 1 THEN i + 3 * GRID_SIZE
    ELSE IF row = 4 THEN i - 3 * GRID_SIZE ELSE i

AppCards ==
    << [ id |-> "card-a", name |-> "Card 1",
         cells |-> SampleCard.cells, hasFreeCenter |-> TRUE ],
       [ id |-> "card-b", name |-> "Card 2",
         cells |-> [ i \in CellIndices |->
                       createCell(i, {SampleNumbers[OtherRow(i) + 1]}) ],
         hasFreeCenter |-> TRUE ] >>

\* the called lists the App is mounted with: none, row 0 but for its last
\* cell, the X but for its first cell
AppCallPatterns == { {}, LineCells("row0") \ {4}, XCells \ {0} }

\* the numbers toggled: cells 0, 4 and 5 of the sample card
AppCallable == SetOf(NumbersAt(SampleCard, {0, 4, 5}))

AppInitWith(modes, patterns) ==
    /\ card = SampleCard
    /\ marks = computeMarks(card, <<>>)
    /\ completedLines = <<>>
    /\ winResult = NoResult
    /\ lastToggled = {}
    /\ steps = 0
    /\ pc = "app"
    /\ ColumnsIdle
    /\ cards = AppCards
    /\ cardView = "list"
    /\ newCardCells = <<>>
    /\ editingCardId = {}
    /\ selectedIndex = {}
    /\ lastChange = NoChange
    /\ edits = 0
    /\ ruleMode \in modes
    /\ sessionDetectWins = TRUE
    /\ celebratedBefore = {}
    /\ PathIdle
    /\ StoreIdle
    /\ \E P \in patterns :
          LET called == NumbersAt(SampleCard, P)
              out == IF WinCheckEnabled(ruleMode)
                     THEN winCheckLoop(cards, 1, NoObjects(called), ruleMode, {})
                     ELSE [ objs |-> NoObjects(called), celebrated |-> {},
                            won |-> {} ]
          IN  /\ calledNumbers = out.objs.calledNumbers
              /\ memory = out.objs
              /\ celebratedWins = IF Len(calledNumbers) = 0 THEN {}
                                  ELSE out.celebrated
              /\ announced = { c.id : c \in out.won }
              /\ showBingoOverlay = (out.won # {})
              /\ winningCardName = IF out.won # {}
                                    THEN (CHOOSE c \in out.won : TRUE).name
                                    ELSE ""
              /\ celebrations =
                    IF out.won # {} /\ Len(calledNumbers) # 0
                    THEN << Celebration(CHOOSE c \in out.won : TRUE,
                                        calledNumbers, ruleMode) >>
                    ELSE <<>>

AppInit == AppInitWith(SetOf(RULE_MODES), AppCallPatterns)

appFrame == <<card, marks, completedLines, winResult, pc, columnVars,
              editorVars, pathVars, storeVars>>

\* handleNumberToggle, the render and the effects
NumberToggled(n) ==
    /\ steps' = steps + 1
    /\ lastToggled' = {n}
    /\ Effects(toggleCalledNumber(calledNumbers, n), ruleMode, TRUE, TRUE)
    /\ UNCHANGED <<appFrame, ruleMode, sessionDetectWins>>

HandleNumberToggle(n) ==
    /\ steps < MaxAppSteps
    /\ NumberToggled(n)

OnRuleModeChange(mode) ==
    /\ steps < MaxAppSteps
    /\ steps' = steps + 1
    /\ ruleMode' = mode
    /\ Effects(calledNumbers, mode, mode # ruleMode, FALSE)
    /\ UNCHANGED <<appFrame, lastToggled, sessionDetectWins>>

\* resetMarks from the confirm modal, the render and the effects
ClearConfirmed ==
    /\ steps' = steps + 1
    /\ lastToggled' = {}
    /\ Effects(<<>>, ruleMode, TRUE, Len(calledNumbers) # 0)
    /\ UNCHANGED <<appFrame, ruleMode, sessionDetectWins>>

OnClearConfirm ==
    /\ steps < MaxAppSteps
    /\ ClearConfirmed

SetDetectWins(detect) ==
    /\ steps < MaxAppSteps
    /\ steps' = steps + 1
    /\ sessionDetectWins' = detect
    /\ announced' = {}
    /\ UNCHANGED <<appFrame, calledNumbers, ruleMode, lastToggled,
                   celebratedWins, showBingoOverlay, winningCardName,
                   celebrations, memory, celebratedBefore>>

\* the overlay's onDismiss: a tap, or its timer after 4 seconds
DismissOverlay ==
    /\ showBingoOverlay
    /\ showBingoOverlay' = FALSE
    /\ announced' = {}
    /\ UNCHANGED <<appFrame, calledNumbers, ruleMode, lastToggled, steps,
                   sessionDetectWins, celebratedWins, winningCardName,
                   celebrations, memory, celebratedBefore>>

AppNext ==
    \/ \E n \in AppCallable : HandleNumberToggle(n)
    \/ \E mode \in SetOf(RULE_MODES) : OnRuleModeChange(mode)
    \/ OnClearConfirm
    \/ \E detect \in BOOLEAN : SetDetectWins(detect)
    \/ DismissOverlay

SpecApp == AppInit /\ [][AppNext]_vars

----------------------------------------------------------------------------
(* The session tab when a win is lost and reached again: the App is mounted *)
(* with row 2 called, which both cards hold, and the numbers of that row    *)
(* and one of row 0 are toggled, or all cleared.                            *)

ReplayPatterns == { LineCells("row2") \ {FREE_INDEX} }

ReplayModes == { "STANDARD" }

\* the numbers toggled: those of row 2, and the first of row 0
ReplayCallable == SetOf(NumbersAt(SampleCard, LineCells("row2") \cup {0}))

ReplayInit == AppInitWith(ReplayModes, ReplayPatterns)

ReplayToggle(n) ==
    /\ steps < MaxReplaySteps
    /\ NumberToggled(n)

ReplayClear ==
    /\ steps < MaxReplaySteps
    /\ ClearConfirmed

ReplayNext ==
    \/ \E n \in ReplayCallable : ReplayToggle(n)
    \/ ReplayClear
    \/ DismissOverlay

SpecReplay == ReplayInit /\ [][ReplayNext]_vars

----------------------------------------------------------------------------
(* The session store on its own: its six actions called in any order.  An   *)
(* optional argument is the empty set when it is left out.                  *)

\* the session, when there is one
Session(cur) == CHOOSE x \in cur : TRUE

\* mutant of startSession: the ruleMode argument wins over the session's
startSessionNewMode(cur, now, cardIds, ruleModeArg, detectWinsArg) ==
    LET mode   == IF ruleModeArg = {} THEN "STANDARD"
                  ELSE CHOOSE x \in ruleModeArg : TRUE
        detect == IF detectWinsArg = {} THEN TRUE
                  ELSE CHOOSE x \in detectWinsArg : TRUE
    IN  { [ id            |-> now,
            startedAt     |-> now,
            cardIds       |-> cardIds,
            calledNumbers |-> IF cur # {} THEN Session(cur).calledNumbers
                              ELSE <<>>,
            marksByCard   |-> <<>>,
            ruleMode      |-> mode,
            detectWins    |-> detect ] }

\* the id is generateId(), a string made of Date.now() and a random part:
\* here the time it was made at
startSession(cur, now, cardIds, ruleModeArg, detectWinsArg) ==
    LET mode   == IF ruleModeArg = {} THEN "STANDARD"
                  ELSE CHOOSE x \in ruleModeArg : TRUE
        detect == IF detectWinsArg = {} THEN TRUE
                  ELSE CHOOSE x \in detectWinsArg : TRUE
    IN  { [ id            |-> now,
            startedAt     |-> now,
            cardIds       |-> cardIds,
            calledNumbers |-> IF cur # {} THEN Session(cur).calledNumbers
                              ELSE <<>>,
            marksByCard   |-> <<>>,
            ruleMode      |-> IF cur # {} THEN Session(cur).ruleMode
                              ELSE mode,
            detectWins    |-> detect ] }

endSession(cur) == {}

toggleCalledNumberOfSession(cur, num) ==
    IF cur = {} THEN cur
    ELSE { [ Session(cur) EXCEPT
               !.calledNumbers = toggleCalledNumber(@, num) ] }

setRuleMode(cur, mode) ==
    IF cur = {} THEN cur
    ELSE { [ Session(cur) EXCEPT !.ruleMode = mode ] }

\* mutant of resetMarks: the rule mode is reset too
resetMarksAndMode(cur) ==
    IF cur = {} THEN cur
    ELSE { [ Session(cur) EXCEPT !.calledNumbers = <<>>,
                                 !.marksByCard = <<>>,
                                 !.ruleMode = "STANDARD" ] }

resetMarks(cur) ==
    IF cur = {} THEN cur
    ELSE { [ Session(cur) EXCEPT !.calledNumbers = <<>>,
                                 !.marksByCard = <<>> ] }

setDetectWins(cur, detect) ==
    IF cur = {} THEN cur
    ELSE { [ Session(cur) EXCEPT !.detectWins = detect ] }

\* cards.map(c => c.id)
CardIdsOf(cs) == [ k \in DOMAIN cs |-> cs[k].id ]

\* the numbers toggled: the first and the last of row 0, and one of row 1
StoreToggles == NumbersAt(SampleCard, {0, 4, 5})

\* the ruleMode arguments of startSession
StartModes == { {}, {"BOX"} }

\* the detectWins arguments of startSession
StartDetects == { {}, {FALSE} }

\* the arguments of setRuleMode
StoreModes == { "DOUBLE", "NONE" }

\* no session, or a session in which row 0 but for its last number has been
\* called
StoreInit ==
    /\ card = SampleCard
    /\ calledNumbers = <<>>
    /\ ruleMode = "STANDARD"
    /\ marks = computeMarks(card, calledNumbers)
    /\ completedLines = <<>>
    /\ winResult = NoResult
    /\ lastToggled = {}
    /\ steps = 0
    /\ pc = "store"
    /\ ColumnsIdle
    /\ AppIdle
    /\ PathIdle
    /\ cards = AppCards
    /\ cardView = "list"
    /\ newCardCells = <<>>
    /\ editingCardId = {}
    /\ selectedIndex = {}
    /\ lastChange = NoChange
    /\ edits = 0
    /\ lastCall = NoCall
    /\ sessionBefore = <<>>
    /\ \/ /\ clock = 0
          /\ currentSession = {}
       \/ /\ clock = 1
          /\ currentSession =
               { [ id            |-> 1,
                   startedAt     |-> 1,
                   cardIds       |-> CardIdsOf(cards),
                   calledNumbers |-> NumbersAt(SampleCard,
                                               LineCells("row0") \ {4}),
                   marksByCard   |-> <<>>,
                   ruleMode      |-> "STANDARD",
                   detectWins    |-> TRUE ] }

storeFrame == <<card, calledNumbers, ruleMode, marks, completedLines,
                winResult, lastToggled, pc, columnVars, editorVars, appVars,
                pathVars>>

\* the call is recorded with the session it found
Called(op, args) ==
    /\ steps < MaxStoreCalls
    /\ steps' = steps + 1
    /\ lastCall' = [ op   |-> op,
                     args |-> args,
                     prev |-> << lastCall.op, lastCall.args >> ]
    /\ sessionBefore' = IF sessionBefore = <<>>
                        THEN << currentSession >>
                        ELSE << currentSession, sessionBefore[1] >>
    /\ UNCHANGED storeFrame

StartSession(cardIds, ruleModeArg, detectWinsArg) ==
    /\ Called("startSession", << cardIds, ruleModeArg, detectWinsArg >>)
    /\ clock' = clock + 1
    /\ currentSession' = startSession(currentSession, clock', cardIds,
                                      ruleModeArg, detectWinsArg)

EndSession ==
    /\ Called("endSession", <<>>)
    /\ currentSession' = endSession(currentSession)
    /\ UNCHANGED clock

ToggleCalledNumberOfSession(num) ==
    /\ Called("toggleCalledNumber", << num >>)
    /\ currentSession' = toggleCalledNumberOfSession(currentSession, num)
    /\ UNCHANGED clock

SetRuleModeOfSession(mode) ==
    /\ Called("setRuleMode", << mode >>)
    /\ currentSession' = setRuleMode(currentSession, mode)
    /\ UNCHANGED clock

ResetMarksOfSession ==
    /\ Called("resetMarks", <<>>)
    /\ currentSession' = resetMarks(currentSession)
    /\ UNCHANGED clock

SetDetectWinsOfSession(detect) ==
    /\ Called("setDetectWins", << detect >>)
    /\ currentSession' = setDetectWins(currentSession, detect)
    /\ UNCHANGED clock

StoreNext ==
    \/ \E ruleModeArg \in StartModes : \E detectWinsArg \in StartDetects :
          StartSession(CardIdsOf(cards), ruleModeArg, detectWinsArg)
    \/ EndSession
    \/ \E num \in SetOf(StoreToggles) : ToggleCalledNumberOfSession(num)
    \/ \E mode \in StoreModes : SetRuleModeOfSession(mode)
    \/ ResetMarksOfSession
    \/ \E detect \in BOOLEAN : SetDetectWinsOfSession(detect)

SpecStore == StoreInit /\ [][StoreNext]_vars

----------------------------------------------------------------------------
(* Properties *)

\* the lines all of whose five cells are marked in a 25-entry mark vector
CompleteLineSet(m) == { l \in LineIds : \A i \in LineCells(l) : m[i] }

AllMarked(m) == \A i \in CellIndices : m[i]

LineModes == {"STANDARD", "DOUBLE", "BOX", "X", "BLACKOUT"}

\* the outer ring of the grid: first or last row, first or last column
BorderCells ==
    { i \in CellIndices :
        \/ i \div GRID_SIZE \in {0, GRID_SIZE - 1}
        \/ i % GRID_SIZE \in {0, GRID_SIZE - 1} }

\* the fixed enumeration order of the twelve lines
EnumerationOrder ==
    << "row0", "row1", "row2", "row3", "row4",
       "col0", "col1", "col2", "col3", "col4",
       "diagMain", "diagAnti" >>

Position(lineId) == CHOOSE k \in DOMAIN EnumerationOrder : EnumerationOrder[k] = lineId

\* C1: computeMarks returns 25 booleans aligned with card.cells; entry i is
\* true iff cell i is free or has an assigned number that is among the called
\* numbers; a non-free cell with no assigned number is never marked.
C1_ComputeMarks ==
    /\ DOMAIN marks = CellIndices
    /\ \A i \in CellIndices :
          marks[i] <=>
            \/ card.cells[i].isFree
            \/ \E n \in card.cells[i].number :
                  \E k \in 1 .. Len(calledNumbers) : calledNumbers[k] = n
    /\ \A i \in CellIndices :
          (~card.cells[i].isFree /\ card.cells[i].number = {}) => ~marks[i]

\* C1 witness: after a toggle, on the card with cleared cells, the number the
\* cleared cell 0 used to hold is called and cell 0 stays unmarked, while the
\* centre and some numbered cell are marked and some numbered cell is not.
C1_Witness ==
    /\ steps > 0
    /\ card = PartialCard
    /\ SampleNumbers[1] \in SetOf(calledNumbers)
    /\ ~marks[0]
    /\ marks[FREE_INDEX]
    /\ \E i \in CellIndices \ {FREE_INDEX} : marks[i]
    /\ \E i \in CellIndices : card.cells[i].number # {} /\ ~marks[i]

\* C2: under STANDARD detectWins wins iff at least one of the 12 lines is
\* complete; a win has winType 'Standard Bingo' and lists all completed lines,
\* each once; a loss has completedLineCount 0.
C2_Standard ==
    (pc = "done" /\ ruleMode = "STANDARD") =>
        LET complete == CompleteLineSet(marks) IN
        /\ winResult.isWin <=> complete # {}
        /\ winResult.isWin =>
              /\ winResult.winType = "Standard Bingo"
              /\ SetOf(winResult.winningLines) = complete
              /\ Len(winResult.winningLines) = Cardinality(complete)
        /\ ~winResult.isWin => winResult.completedLineCount = 0

\* C2 witness: a STANDARD win with more than one completed line.
C2_Witness ==
    /\ pc = "done"
    /\ ruleMode = "STANDARD"
    /\ winResult.isWin
    /\ Len(winResult.winningLines) >= 2

\* C3: under DOUBLE detectWins wins iff at least two distinct lines are
\* complete; a win lists all completed lines; a loss has completedLineCount
\* equal to the number of completed lines (0 or 1).
C3_Double ==
    (pc = "done" /\ ruleMode = "DOUBLE") =>
        LET complete == CompleteLineSet(marks) IN
        /\ winResult.isWin <=> Cardinality(complete) >= 2
        /\ winResult.isWin =>
              /\ SetOf(winResult.winningLines) = complete
              /\ Len(winResult.winningLines) = Cardinality(complete)
        /\ ~winResult.isWin =>
              /\ winResult.completedLineCount = Cardinality(complete)
              /\ winResult.completedLineCount \in {0, 1}

\* C3 witness: a DOUBLE loss with exactly one line complete.
C3_Witness ==
    /\ pc = "done"
    /\ ruleMode = "DOUBLE"
    /\ ~winResult.isWin
    /\ winResult.completedLineCount = 1

\* C4: under X detectWins wins iff diagMain and diagAnti are both complete; a
\* win lists exactly [diagMain, diagAnti], whatever else is complete; a loss
\* has completedLineCount equal to the number of completed lines.
C4_X ==
    (pc = "done" /\ ruleMode = "X") =>
        LET complete == CompleteLineSet(marks) IN
        /\ winResult.isWin <=> {"diagMain", "diagAnti"} \subseteq complete
        /\ winResult.isWin => winResult.winningLines = <<"diagMain", "diagAnti">>
        /\ ~winResult.isWin => winResult.completedLineCount = Cardinality(complete)

\* C4 witness: an X win while a row or a column is complete as well.
C4_Witness ==
    /\ pc = "done"
    /\ ruleMode = "X"
    /\ winResult.isWin
    /\ Cardinality(CompleteLineSet(marks)) > 2

\* C5: under BOX detectWins wins iff all 16 cells of the outer ring are
\* marked; a win has no winningLines although row0, row4, col0 and col4 are
\* complete; a loss has completedLineCount equal to the number of completed
\* lines.
C5_Box ==
    (pc = "done" /\ ruleMode = "BOX") =>
        LET complete == CompleteLineSet(marks) IN
        /\ winResult.isWin <=> \A i \in BorderCells : marks[i]
        /\ winResult.isWin =>
              /\ ~HasField(winResult, "winningLines")
              /\ {"row0", "row4", "col0", "col4"} \subseteq complete
        /\ ~winResult.isWin => winResult.completedLineCount = Cardinality(complete)

\* C5 witness: a BOX win that is no blackout.
C5_Witness ==
    /\ pc = "done"
    /\ ruleMode = "BOX"
    /\ winResult.isWin
    /\ ~AllMarked(marks)

\* C6: under BLACKOUT, on the marks computeMarks produced, detectWins wins iff
\* all 25 entries are true, which is iff every one of the 24 non-free cells
\* holds a number that is called; a win has no winningLines; a loss has
\* completedLineCount equal to the number of completed lines.
C6_Blackout ==
    ruleMode = "BLACKOUT" =>
        /\ winResult.isWin <=> AllMarked(marks)
        /\ winResult.isWin <=>
              \A i \in CellIndices \ {FREE_INDEX} :
                 /\ card.cells[i].number # {}
                 /\ card.cells[i].number \subseteq SetOf(calledNumbers)
        /\ winResult.isWin => ~HasField(winResult, "winningLines")
        /\ ~winResult.isWin =>
              winResult.completedLineCount = Cardinality(CompleteLineSet(marks))

\* C6 witness: the toggle that calls the last missing number wins BLACKOUT.
C6_Witness ==
    /\ ruleMode = "BLACKOUT"
    /\ steps > 0
    /\ lastToggled # {}
    /\ lastToggled \subseteq SetOf(calledNumbers)
    /\ winResult.isWin

\* C7 as stated: the result carries a completedLineCount in every case except
\* rule mode NONE and the winning results of BOX, BLACKOUT and X.
C7_AsStated ==
    (pc = "done" /\ ruleMode \in SetOf(RULE_MODES)) =>
        (HasField(winResult, "completedLineCount") <=>
            ~(\/ ruleMode = "NONE"
              \/ winResult.isWin /\ ruleMode \in {"BOX", "BLACKOUT", "X"}))

\* C7 amended: for the six rule modes the result carries a completedLineCount
\* in every case except rule mode NONE; the winning results of BOX, BLACKOUT
\* and X carry it too, equal to the number of completed lines.
C7_CountPresent ==
    (pc = "done" /\ ruleMode \in SetOf(RULE_MODES)) =>
        /\ HasField(winResult, "completedLineCount") <=> ruleMode # "NONE"
        /\ (winResult.isWin /\ ruleMode \in {"BOX", "BLACKOUT", "X"}) =>
              winResult.completedLineCount = Cardinality(CompleteLineSet(marks))

\* C7 witness: a BOX win, whose result carries the count.
C7_Witness ==
    /\ pc = "done"
    /\ ruleMode = "BOX"
    /\ winResult.isWin
    /\ HasField(winResult, "completedLineCount")

\* C8: for NONE and for any mode outside the six, detectWins returns a non-win
\* with no winType, no winningLines and no completedLineCount, for every mark
\* vector.
C8_NoneOrUnknown ==
    (pc = "done" /\ ruleMode \notin LineModes) =>
        /\ ~winResult.isWin
        /\ DOMAIN winResult = {"isWin"}

\* C8 witness: a mode outside the six evaluated on a fully marked vector.
C8_Witness ==
    /\ pc = "done"
    /\ ruleMode \notin SetOf(RULE_MODES)
    /\ AllMarked(marks)
    /\ ~winResult.isWin

\* C9: getCompletedLines returns exactly the lines whose 5 cells are all
\* marked, in the fixed enumeration order, no line twice.
C9_CompletedLines ==
    pc \in {"lines", "done"} =>
        /\ SetOf(completedLines) = CompleteLineSet(marks)
        /\ \A a, b \in 1 .. Len(completedLines) :
              a < b => Position(completedLines[a]) < Position(completedLines[b])

\* C9 witness: a result that holds a row, a column and a diagonal.
C9_Witness ==
    /\ pc \in {"lines", "done"}
    /\ \E r \in {"row0", "row1", "row2", "row3", "row4"} : r \in SetOf(completedLines)
    /\ \E c \in {"col0", "col1", "col2", "col3", "col4"} : c \in SetOf(completedLines)
    /\ "diagAnti" \in SetOf(completedLines)

\* C10: getCompletedLines is monotonic: when a step leaves every marked cell
\* marked, every line completed before the step is completed after it.
C10_Monotonic ==
    [][ (\A i \in CellIndices : marks[i] => marks'[i]) =>
            SetOf(getCompletedLines(marks)) \subseteq SetOf(getCompletedLines(marks')) ]_vars

\* C10 witness: a number was just added to the called list, a line that was
\* complete before it still is, and the addition completed a further line.
C10_Witness ==
    /\ steps > 0
    /\ \E n \in lastToggled :
          /\ n \in SetOf(calledNumbers)
          /\ LET before == computeMarks(card, SelectSeq(calledNumbers, LAMBDA x : x # n))
             IN  /\ getCompletedLines(before) # <<>>
                 /\ SetOf(getCompletedLines(before)) \subseteq SetOf(getCompletedLines(marks))
                 /\ getCompletedLines(before) # getCompletedLines(marks)

\* C11: a card fresh from createEmptyCard, with nothing called, wins under
\* none of the six rule modes: only index 12 is marked, and no line, nor
\* the perimeter, the X or the blackout is complete.
C11_EmptyCard ==
    (card = EmptyCard /\ calledNumbers = <<>>) =>
        /\ ~winResult.isWin
        /\ \A mode \in SetOf(RULE_MODES) : ~detectWins(card, marks, mode).isWin
        /\ \A i \in CellIndices : marks[i] <=> (i = FREE_INDEX)
        /\ getCompletedLines(marks) = <<>>
        /\ ~isBoxComplete(marks)
        /\ ~isXComplete(marks)
        /\ ~isBlackout(marks)

C11_Witness ==
    /\ card = EmptyCard
    /\ calledNumbers = <<>>
    /\ steps = 1
    /\ ruleMode = "BLACKOUT"
    /\ marks[FREE_INDEX]
    /\ winResult = [ isWin |-> FALSE, completedLineCount |-> 0 ]

----------------------------------------------------------------------------
Reverse(arr) == [ k \in 1 .. Len(arr) |-> arr[Len(arr) + 1 - k] ]

InRange(n) == n >= MIN_NUMBER /\ n <= MAX_NUMBER

\* called lists with the same distinct in-range values as arr: reordered,
\* repeated, with out-of-range values added or removed
Variants(arr) ==
    { Reverse(arr),
      arr \o arr,
      arr \o Reverse(arr),
      << MIN_NUMBER - 1 >> \o arr \o << MAX_NUMBER + 1 >>,
      Reverse(arr) \o << MAX_NUMBER + 1, MIN_NUMBER - 1 >> \o arr,
      SelectSeq(arr, InRange),
      Reverse(SelectSeq(arr, InRange)) }

CardInRange(c) ==
    \A i \in DOMAIN c.cells : \A n \in c.cells[i].number : InRange(n)

\* C16: for a card whose numbers lie in 1..75, computeMarks depends only on
\* the set of distinct called values in 1..75: reordering the called list,
\* repeating values and adding values outside 1..75 leave the marks as
\* they are.
C16_CalledSetOnly ==
    CardInRange(card) =>
        \A v \in Variants(calledNumbers) :
            /\ { n \in SetOf(v) : InRange(n) }
                   = { n \in SetOf(calledNumbers) : InRange(n) }
            /\ computeMarks(card, v) = marks

C16_Witness ==
    /\ CardInRange(card)
    /\ lastToggled = {MAX_NUMBER + 1}
    /\ MAX_NUMBER + 1 \in SetOf(calledNumbers)
    /\ Len(calledNumbers) >= 3
    /\ Reverse(calledNumbers) # calledNumbers
    /\ \E i \in CellIndices : i # FREE_INDEX /\ marks[i]
    /\ \E i \in CellIndices : ~marks[i]

----------------------------------------------------------------------------
RowId(r) == << "row0", "row1", "row2", "row3", "row4" >>[r + 1]

ColId(c) == << "col0", "col1", "col2", "col3", "col4" >>[c + 1]

Last == GRID_SIZE - 1

\* C17: the static geometry agrees with the rows and columns createCell
\* gives the cells: line rowR holds the five cells of row R, colC the five
\* of column C, diagMain the cells with row = col, diagAnti those with
\* row + col = 4, and PERIMETER_INDICES the 16 distinct border cells.
C17_Geometry ==
    LET cells == card.cells IN
    /\ \A i \in CellIndices : cells[i].index = i
    /\ \A r \in 0 .. Last :
          /\ LineCells(RowId(r)) = { i \in CellIndices : cells[i].row = r }
          /\ LineCells(ColId(r)) = { i \in CellIndices : cells[i].col = r }
    /\ LineCells("diagMain")
          = { i \in CellIndices : cells[i].row = cells[i].col }
    /\ LineCells("diagAnti")
          = { i \in CellIndices : cells[i].row + cells[i].col = Last }
    /\ \A l \in LineIds :
          /\ Len(LINE_INDICES[l]) = GRID_SIZE
          /\ Cardinality(LineCells(l)) = GRID_SIZE
    /\ DOMAIN LINE_INDICES = LineIds
    /\ PerimeterCells
          = { i \in CellIndices :
                cells[i].row \in {0, Last} \/ cells[i].col \in {0, Last} }
    /\ Len(PERIMETER_INDICES) = Cardinality(PerimeterCells)
    /\ Cardinality(PerimeterCells) = 16

C17_Witness ==
    /\ steps = 1
    /\ winResult.isWin
    /\ ruleMode = "STANDARD"
    /\ winResult.winningLines = << "row0", "col0" >>
    /\ \A i \in CellIndices :
          marks[i] <=> \/ card.cells[i].row = 0
                       \/ card.cells[i].col = 0
                       \/ i = FREE_INDEX

----------------------------------------------------------------------------
\* C13: isValidNumberForColumn(num, col) is true exactly when col is one of
\* 0..4 and 15*col + 1 <= num <= 15*col + 15; getColumnForNumber(num) is -1
\* exactly when num is outside 1..75, and for a num inside it is the one
\* column for which isValidNumberForColumn(num, col) is true.
C13_Columns ==
    /\ pc \in {"validated", "located"} =>
          (isValid <=> /\ colArg \in 0 .. 4
                       /\ 15 * colArg + 1 <= numArg
                       /\ numArg <= 15 * colArg + 15)
    /\ pc = "located" =>
          /\ (column = -1) <=> (numArg < 1 \/ numArg > 75)
          /\ (numArg >= 1 /\ numArg <= 75) =>
                /\ isValidNumberForColumn(numArg, column)
                /\ \A c \in ColInputs :
                      isValidNumberForColumn(numArg, c) => c = column
                /\ (colArg = column) <=> isValid

C13_Witness ==
    /\ pc = "located"
    /\ numArg = 45
    /\ colArg = 2
    /\ isValid
    /\ column = 2

----------------------------------------------------------------------------
\* the cards of the store and the card being created
CardsInHand == SetOf(cards) \cup EditorCard

\* C12: a card made by createEmptyCard or createCell and changed by the
\* editor's cell changes and by setCellNumber calls (one on index 12 with a
\* number included) has exactly one free cell, at index 12, that cell has
\* no number, and computeMarks marks index 12.
C12_FreeCentre ==
    \A k \in CardsInHand :
        /\ DOMAIN k.cells = CellIndices
        /\ { i \in CellIndices : k.cells[i].isFree } = {FREE_INDEX}
        /\ k.cells[FREE_INDEX].number = {}
        /\ \A called \in { <<>>, << 1, MAX_NUMBER + 1 >> } :
              computeMarks(k, called)[FREE_INDEX]

C12_Witness ==
    /\ lastChange = [ index |-> FREE_INDEX, number |-> {1}, by |-> "store" ]
    /\ edits = 2
    /\ cards[1].cells[FREE_INDEX].number = {}
    /\ cards[1].cells[0].number = {MAX_NUMBER + 1}

----------------------------------------------------------------------------
\* C14: after any sequence of editor actions (select a cell, pick a number,
\* clear a cell) from an empty card, every assigned number lies in the range
\* of its cell's column and differs from every other number assigned in
\* that column.
C14_EditorNumbers ==
    \A k \in CardsInHand : \A i \in CellIndices : \A n \in k.cells[i].number :
        /\ isValidNumberForColumn(n, k.cells[i].col)
        /\ \A j \in CellIndices \ {i} :
              k.cells[j].col = k.cells[i].col => k.cells[j].number # {n}

C14_Witness ==
    /\ edits = 2
    /\ selectedIndex = {10}
    /\ \E k \in EditorCard :
          /\ k.cells[0].number = {1}
          /\ k.cells[5].number = {2}
          /\ \A i \in CellIndices \ {0, 5} : k.cells[i].number = {}

----------------------------------------------------------------------------
\* C15: computeMarks, getCompletedLines, detectWins and the App's use of
\* their results, its in-place sort of the returned winningLines included,
\* leave the card, the called-number list, the mark vector, LINE_INDICES
\* and PERIMETER_INDICES as they were: after a handler and its evaluation
\* the cards are the same, the called list is what the handler made of it,
\* and the objects the effect worked on hold what they held.
C15_Frame ==
    [][ /\ cards' = cards
        /\ Len(calledNumbers') = Len(calledNumbers)
              => calledNumbers' = calledNumbers
        /\ Len(calledNumbers') = Len(calledNumbers) + 1
              => /\ SubSeq(calledNumbers', 1, Len(calledNumbers)) = calledNumbers
                 /\ lastToggled' = {calledNumbers'[Len(calledNumbers')]}
        /\ (Len(calledNumbers') = Len(calledNumbers) - 1 /\ lastToggled' # {})
              => calledNumbers'
                   = SelectSeq(calledNumbers, LAMBDA x : x \notin lastToggled')
        /\ memory'.calledNumbers = calledNumbers'
        /\ \A c \in memory'.card :
              /\ c \in SetOf(cards)
              /\ memory'.marks = computeMarks(c, calledNumbers')
        /\ memory'.lineIndices = LINE_INDICES
        /\ memory'.perimeterIndices = PERIMETER_INDICES
      ]_vars

C15_Witness ==
    /\ ruleMode = "X"
    /\ announced = {"card-a"}
    /\ lastToggled = {1}
    /\ memory.winningLines = << "diagAnti", "diagMain" >>
    /\ memory.card = {cards[1]}
    /\ calledNumbers # sortNumbers(calledNumbers)
    /\ sortLines(LineKeys) # LineKeys

----------------------------------------------------------------------------
\* C18 as stated: while the session's detectWins is false no card is shown
\* as a winner and no celebration is triggered.  The App does not read the
\* toggle, so this fails.
C18_AsStated ==
    ~sessionDetectWins => (Winners = {} /\ announced = {})

----------------------------------------------------------------------------
\* C19: while the called list does not become empty, the celebration is
\* triggered at most once for each (card, rule mode, set of winning lines),
\* also when the win is evaluated again after more numbers are called.
C19_OncePerWin ==
    \A i, j \in DOMAIN celebrations :
        i # j => celebrations[i] # celebrations[j]

C19_Witness ==
    /\ lastToggled = {7}
    /\ 7 \in SetOf(calledNumbers)
    /\ ruleMode = "STANDARD"
    /\ ~showBingoOverlay
    /\ \E c \in Winners :
          /\ c.id = "card-a"
          /\ Celebration(c, calledNumbers, ruleMode) \in SetOf(celebrations)
          /\ c.id \notin announced

----------------------------------------------------------------------------
\* the winning lines of card c as the session tab highlights them
WinningLineSet(c, called, mode) == Celebration(c, called, mode).lines

\* C20 as stated: whenever a change leaves a card winning under a rule mode
\* other than NONE that was not winning before, or winning with other lines
\* than before, the overlay is shown for that card after the evaluation
\* that follows, also when several cards win at once.  The effect stops at
\* the first win it has not celebrated, so this fails.
C20_AsStated ==
    [][ \A c \in SetOf(cards') :
          ( /\ ruleMode' # "NONE"
            /\ isWinner(c, calledNumbers', ruleMode')
            /\ \/ ~isWinner(c, calledNumbers, ruleMode)
               \/ WinningLineSet(c, calledNumbers', ruleMode')
                     # WinningLineSet(c, calledNumbers, ruleMode) )
          => (showBingoOverlay' /\ winningCardName' = c.name)
      ]_vars

----------------------------------------------------------------------------
\* C21: the indices highlighted as winning (getWinningIndices) are the
\* union of the cells of the result's winningLines when the card wins and
\* none otherwise; every highlighted index is marked; and there are some
\* exactly when the card wins under STANDARD, DOUBLE or X (none for a BOX
\* or BLACKOUT win).
C21_WinningIndices ==
    pc = "done" =>
        LET indices == getWinningIndices(marks, ruleMode) IN
        /\ indices = IF winResult.isWin /\ HasField(winResult, "winningLines")
                      THEN UNION { LineCells(l) :
                                     l \in SetOf(winResult.winningLines) }
                      ELSE {}
        /\ \A i \in indices : marks[i]
        /\ (indices # {})
              <=> (winResult.isWin /\ ruleMode \in {"STANDARD", "DOUBLE", "X"})

C21_Witness ==
    /\ pc = "done"
    /\ ruleMode = "X"
    /\ winResult.isWin
    /\ getWinningIndices(marks, ruleMode) = XCells
    /\ \E i \in CellIndices \ XCells : marks[i]

----------------------------------------------------------------------------
\* C28: the result of detectWins depends on the mark vector and the rule
\* mode only: for any two cards, the card without cells that
\* getWinningIndices passes included, the results are equal.
C28_CardIgnored ==
    pc = "done" =>
        \A c \in { CellLessCard, EmptyCard, PartialCard } :
            detectWins(c, marks, ruleMode) = winResult

C28_Witness ==
    /\ pc = "done"
    /\ ruleMode = "BOX"
    /\ winResult.isWin
    /\ card = SampleCard
    /\ detectWins(CellLessCard, marks, ruleMode).isWin
    /\ ~isBlackout(marks)

----------------------------------------------------------------------------
WinsUnder(m, mode) == detectWins(CellLessCard, m, mode).isWin

FourRows ==
    MarksOf(UNION { LineCells(l) : l \in {"row0", "row1", "row2", "row3"} })

\* C29: for a 25-entry mark vector the win conditions are nested: BLACKOUT
\* implies BOX and X; BOX implies at least 4 completed lines and DOUBLE; X
\* implies DOUBLE; DOUBLE implies STANDARD; and no converse holds: the
\* perimeter, the X, four rows and a single row are mark vectors that
\* separate them.
C29_Nested ==
    /\ WinsUnder(marks, "BLACKOUT")
          => (WinsUnder(marks, "BOX") /\ WinsUnder(marks, "X"))
    /\ WinsUnder(marks, "BOX")
          => (Len(getCompletedLines(marks)) >= 4 /\ WinsUnder(marks, "DOUBLE"))
    /\ WinsUnder(marks, "X") => WinsUnder(marks, "DOUBLE")
    /\ WinsUnder(marks, "DOUBLE") => WinsUnder(marks, "STANDARD")
    /\ LET box == MarksOf(PerimeterCells) IN
          /\ WinsUnder(box, "BOX")
          /\ ~WinsUnder(box, "BLACKOUT")
          /\ WinsUnder(box, "DOUBLE") /\ ~WinsUnder(box, "X")
    /\ LET x == MarksOf(XCells) IN
          /\ WinsUnder(x, "X")
          /\ ~WinsUnder(x, "BLACKOUT")
          /\ WinsUnder(x, "DOUBLE") /\ ~WinsUnder(x, "BOX")
    /\ Len(getCompletedLines(FourRows)) >= 4 /\ ~WinsUnder(FourRows, "BOX")
    /\ LET row == MarksOf(LineCells("row0")) IN
          WinsUnder(row, "STANDARD") /\ ~WinsUnder(row, "DOUBLE")

C29_Witness ==
    /\ pc = "done"
    /\ ruleMode = "BOX"
    /\ winResult.isWin
    /\ WinsUnder(marks, "DOUBLE")
    /\ ~WinsUnder(marks, "X")
    /\ ~WinsUnder(marks, "BLACKOUT")
    /\ \E i \in CellIndices \ PerimeterCells : marks[i]

\* the non-free cells column by column, each column from top to bottom
ColumnOrder ==
    SelectSeq([ k \in 1 .. CELL_COUNT |->
                  ((k - 1) % GRID_SIZE) * GRID_SIZE + ((k - 1) \div GRID_SIZE) ],
              LAMBDA i : i # FREE_INDEX)

\* the cells of the new card that have a number
Filled == { i \in DOMAIN newCardCells : newCardCells[i].number # {} }

\* C30: starting from cell 0, picking a number again and again selects the
\* 24 non-free cells one after the other, each exactly once, column by
\* column and from top to bottom in each column, never the free centre 12;
\* each pick fills the cell it was made on, so that 24 picks fill the whole
\* card, and after the 24th getNextCellIndex returns null
C30_Traversal ==
    (pc = "traverse" /\ visited[1] = 0) =>
        /\ Len(visited) <= Len(ColumnOrder)
        /\ \A k \in DOMAIN visited : visited[k] = ColumnOrder[k]
        /\ \A k \in DOMAIN visited : visited[k] # FREE_INDEX
        /\ \A j, k \in DOMAIN visited : visited[j] = visited[k] => j = k
        /\ selectedIndex = { visited[Len(visited)] }
        /\ (getNextCellIndex(visited[Len(visited)]) = {})
              <=> (Len(visited) = CELL_COUNT - 1)
        /\ edits < CELL_COUNT - 1 =>
              /\ Len(visited) = edits + 1
              /\ Filled = { visited[k] : k \in 1 .. edits }
        /\ edits >= CELL_COUNT - 1 =>
              /\ SetOf(visited) = CellIndices \ {FREE_INDEX}
              /\ Filled = CellIndices \ {FREE_INDEX}
              /\ \A c \in EditorCard : validateCard(c)

\* C30: 24 numbers have been picked from cell 0 and the card is full
C30_Witness ==
    /\ pc = "traverse"
    /\ visited[1] = 0
    /\ edits = CELL_COUNT - 1
    /\ Len(visited) = CELL_COUNT - 1
    /\ selectedIndex = {24}
    /\ \A c \in EditorCard : validateCard(c)

\* C22 as stated: every card in the cards store has a number in each of its
\* 24 non-free cells, whatever was created, picked, cleared, saved, edited
\* or cancelled in the Cards tab
C22_AsStated ==
    pc = "cards" =>
        \A k \in DOMAIN cards : validateCard(cards[k])

----------------------------------------------------------------------------
\* the called numbers of the store: none when there is no session
CalledIn(cur) == IF cur = {} THEN <<>> ELSE Session(cur).calledNumbers

\* the cards that win under a mode when these numbers are called
WinnersOf(called, mode) ==
    { k \in DOMAIN cards :
        detectWins(cards[k], computeMarks(cards[k], called), mode).isWin }

\* C23: whatever toggleCalledNumber, resetMarks, setRuleMode, setDetectWins,
\* startSession and endSession calls have been made since the session was
\* new, no number is twice in the session's calledNumbers
C23_NoDuplicates ==
    pc = "store" =>
        LET called == CalledIn(currentSession) IN
        \A j, k \in DOMAIN called : called[j] = called[k] => j = k

\* C23: a number that was called and untoggled is called again, in a list
\* that holds other numbers
C23_Witness ==
    /\ pc = "store"
    /\ steps >= 2
    /\ lastCall.op = "toggleCalledNumber"
    /\ lastCall.prev = << "toggleCalledNumber", lastCall.args >>
    /\ lastCall.args[1] \in SetOf(CalledIn(sessionBefore[2]))
    /\ lastCall.args[1] \in SetOf(CalledIn(currentSession))
    /\ Len(CalledIn(currentSession)) >= 4

\* C24: after two toggleCalledNumber calls in a row with the same number the
\* set of called numbers is what it was before them, and so are the marks
\* of every card and what detectWins says of every card under every mode;
\* the list is in the same order too when the number was not in it before
C24_DoubleToggle ==
    ( /\ pc = "store"
      /\ steps >= 2
      /\ lastCall.op = "toggleCalledNumber"
      /\ lastCall.prev[1] = "toggleCalledNumber"
      /\ lastCall.prev[2] = lastCall.args ) =>
        LET before == CalledIn(sessionBefore[2])
            after  == CalledIn(currentSession)
            num    == lastCall.args[1]
        IN  /\ (sessionBefore[2] = {}) <=> (currentSession = {})
            /\ SetOf(after) = SetOf(before)
            /\ \A k \in DOMAIN cards :
                  /\ computeMarks(cards[k], after)
                       = computeMarks(cards[k], before)
                  /\ \A mode \in SetOf(RULE_MODES) :
                        detectWins(cards[k], computeMarks(cards[k], after), mode)
                          = detectWins(cards[k],
                                       computeMarks(cards[k], before), mode)
            /\ num \notin SetOf(before) => after = before

\* C24: the number that completes row 0 of both cards has been toggled
\* twice, the first toggle having made them win
C24_Witness ==
    /\ pc = "store"
    /\ steps >= 2
    /\ lastCall.op = "toggleCalledNumber"
    /\ lastCall.prev = << "toggleCalledNumber", lastCall.args >>
    /\ lastCall.args[1] \notin SetOf(CalledIn(sessionBefore[2]))
    /\ sessionBefore[1] # {}
    /\ WinnersOf(CalledIn(sessionBefore[1]), "STANDARD") = DOMAIN cards
    /\ WinnersOf(CalledIn(currentSession), "STANDARD") = {}
    /\ Len(CalledIn(currentSession)) >= 4

\* C25: startSession makes a session with a new id and startedAt, the given
\* cardIds, an empty marksByCard and the given detectWins (true by default);
\* when it found a session, calledNumbers and ruleMode are that session's,
\* whatever ruleMode was given; when it found none, calledNumbers is empty
\* and ruleMode is the one given, STANDARD by default
C25_StartSession ==
    (pc = "store" /\ lastCall.op = "startSession") =>
        /\ currentSession # {}
        /\ LET new == Session(currentSession)
               old == sessionBefore[1]
               ruleModeArg == lastCall.args[2]
               detectWinsArg == lastCall.args[3]
           IN  /\ new.id = clock
               /\ new.startedAt = clock
               /\ old # {} => ( new.id # Session(old).id
                                /\ new.startedAt > Session(old).startedAt )
               /\ new.cardIds = lastCall.args[1]
               /\ new.marksByCard = <<>>
               /\ new.detectWins = (detectWinsArg # {FALSE})
               /\ old # {} =>
                     /\ new.calledNumbers = Session(old).calledNumbers
                     /\ new.ruleMode = Session(old).ruleMode
               /\ old = {} =>
                     /\ new.calledNumbers = <<>>
                     /\ new.ruleMode = IF ruleModeArg = {} THEN "STANDARD"
                                       ELSE CHOOSE x \in ruleModeArg : TRUE

\* C25: startSession was given a rule mode and a detectWins that are not
\* those of the session it found, in which numbers were called
C25_Witness ==
    /\ pc = "store"
    /\ lastCall.op = "startSession"
    /\ sessionBefore[1] # {}
    /\ Session(sessionBefore[1]).calledNumbers # <<>>
    /\ lastCall.args[2] # {}
    /\ lastCall.args[2] # { Session(sessionBefore[1]).ruleMode }
    /\ Session(sessionBefore[1]).detectWins
    /\ ~Session(currentSession).detectWins
    /\ Session(currentSession).calledNumbers # <<>>

\* C26: resetMarks on a session empties calledNumbers and marksByCard and
\* keeps id, startedAt, cardIds, ruleMode and detectWins, and then no card
\* wins under any rule mode; toggleCalledNumber, setRuleMode, resetMarks and
\* setDetectWins called without a session leave the store without one
C26_ResetMarks ==
    pc = "store" =>
        /\ (lastCall.op = "resetMarks" /\ sessionBefore[1] # {}) =>
              /\ currentSession # {}
              /\ LET new == Session(currentSession)
                     old == Session(sessionBefore[1])
                 IN  /\ new.calledNumbers = <<>>
                     /\ new.marksByCard = <<>>
                     /\ new.id = old.id
                     /\ new.startedAt = old.startedAt
                     /\ new.cardIds = old.cardIds
                     /\ new.ruleMode = old.ruleMode
                     /\ new.detectWins = old.detectWins
                     /\ \A mode \in SetOf(RULE_MODES) :
                           WinnersOf(new.calledNumbers, mode) = {}
        /\ ( /\ lastCall.op \in { "toggleCalledNumber", "setRuleMode",
                                  "resetMarks", "setDetectWins" }
             /\ sessionBefore[1] = {} ) => currentSession = {}

\* C26: resetMarks on a session in which both cards had won, whose rule mode
\* was not the default and whose win detection was off
C26_Witness ==
    /\ pc = "store"
    /\ lastCall.op = "resetMarks"
    /\ sessionBefore[1] # {}
    /\ Session(sessionBefore[1]).ruleMode # "STANDARD"
    /\ WinnersOf(Session(sessionBefore[1]).calledNumbers, "STANDARD")
         = DOMAIN cards
    /\ Session(currentSession).calledNumbers = <<>>

----------------------------------------------------------------------------
\* the key the win-check effect makes for a winning card
KeyOf(c, called, mode) ==
    LET r == detectWins(c, computeMarks(c, called), mode) IN
    winKey(c, called, mode,
           IF HasField(r, "winningLines") THEN sortLines(r.winningLines)
           ELSE <<>>)

\* card k wins with these numbers called, and that win has not been
\* celebrated since the called list was last empty
Uncelebrated(k, called, mode, since) ==
    /\ mode # "NONE"
    /\ isWinner(cards[k], called, mode)
    /\ Celebration(cards[k], called, mode) \notin SetOf(since)

\* C27: when a handler leaves the called list empty (Clear All, or the
\* toggle that takes the last number out), no win is left in the celebrated
\* set; and when a handler leaves a card winning with a key that was
\* celebrated before the list was emptied and has not been since, the
\* celebration is triggered for it again (for the first such card in the
\* order of the store: the effect stops at the first celebration)
C27_ClearedAndAgain ==
    [][ (pc = "app" /\ steps' = steps + 1) =>
          /\ Len(calledNumbers') = 0 => celebratedWins' = {}
          /\ \A k \in DOMAIN cards :
                ( /\ Uncelebrated(k, calledNumbers', ruleMode', celebrations)
                  /\ \A j \in 1 .. (k - 1) :
                        ~Uncelebrated(j, calledNumbers', ruleMode',
                                      celebrations)
                  /\ KeyOf(cards[k], calledNumbers', ruleMode')
                        \in celebratedBefore )
                => /\ announced' = { cards[k].id }
                   /\ showBingoOverlay'
                   /\ winningCardName' = cards[k].name
                   /\ KeyOf(cards[k], calledNumbers', ruleMode')
                        \in celebratedWins'
                   /\ Celebration(cards[k], calledNumbers', ruleMode')
                        \in SetOf(celebrations')
      ]_vars

\* C27: row 2 was celebrated for Card 1, the called list was emptied, and
\* the toggle that completes row 2 again has triggered the celebration
\* for Card 1 again
C27_Witness ==
    /\ pc = "app"
    /\ steps >= 5
    /\ lastToggled # {}
    /\ announced = { "card-a" }
    /\ showBingoOverlay
    /\ winningCardName = "Card 1"
    /\ KeyOf(cards[1], calledNumbers, ruleMode) \in celebratedBefore
    /\ KeyOf(cards[1], calledNumbers, ruleMode) \in celebratedWins
    /\ Celebration(cards[1], calledNumbers, ruleMode).lines = {"row2"}

====
